---- MODULE Spec2Model ----
(***************************************************************************)
(* Model of the spacetraveling blog front-end:                             *)
(*   - the home page's post list and its "load more" pagination            *)
(*     (src/pages/index.tsx),                                               *)
(*   - the post page: getStaticPaths / getStaticProps / the Post component  *)
(*     with its reading-time estimate (src/pages/post/[slug].tsx),          *)
(*   - the Utterances comments embed (components/Utterances).               *)
(* A nullable JavaScript value is modelled as a sequence of length 0 or 1: *)
(* Null is <<>> and a present value v is <<v>>.                             *)
(***************************************************************************)
EXTENDS Integers, Sequences, FiniteSets, TLC

VARIABLES
    \* ---- home page (index.tsx) ----
    total,          \* number of documents of type "posts" in the repository
    posts,          \* useState(postsPagination.results)
    loadMorePosts,  \* useState(postsPagination.next_page)
    inflight,       \* pending fetch promises, each with the closure it was started from
    calls,          \* number of handleLoadPosts invocations so far
    netLog,         \* history: the URLs handed to fetch, in order
    appended,       \* history: the raw pages whose callback reached setPosts
    event,          \* history: the last thing that happened on the home page
    \* ---- post page ([slug].tsx) ----
    slug,           \* params.slug of the request
    preview,        \* preview flag of the request
    content,        \* data.content of the stored documents
    prerendered,    \* was the path returned by getStaticPaths at build time
    gspPc,          \* position inside getStaticProps
    response,       \* result of getByUID
    prevPost,       \* result of the first auxiliary query
    nextPost,       \* result of the second auxiliary query
    queries,        \* number of prismic.query calls issued by getStaticProps
    gspResult,      \* value returned by getStaticProps
    view,           \* what the Post component last produced
    \* ---- comments embed (Utterances) ----
    commentsBox,    \* children of <div id="commentsBox">, in document order
    mounts          \* number of runs of the effect so far

listVars == <<total, posts, loadMorePosts, inflight, calls, netLog, appended, event>>
postVars == <<slug, preview, content, prerendered, gspPc, response, prevPost,
              nextPost, queries, gspResult, view>>
embedVars == <<commentsBox, mounts>>
vars == <<listVars, postVars, embedVars>>

Null == <<>>
Some(v) == <<v>>

\* ---- bounds ----
NumPosts == 4
MaxCalls == 4
MaxInflight == 2
NumDocs == 3
MaxSections == 2
MaxMounts == 6

(***************************************************************************)
(* Content repository: documents of type "posts".                          *)
(***************************************************************************)
\* publication dates are distinct and not in uid order: 20, 5, 60, 25, ...
DateOf(i) == IF i % 2 = 1 THEN 20 * i ELSE 10 * i - 15

RawPost(i) ==
    [ id |-> <<"id", i>>, uid |-> i, type |-> "posts",
      first_publication_date |-> Some(DateOf(i)),
      last_publication_date |-> Some(DateOf(i) + 1),
      data |-> [ title |-> <<"title", i>>, subtitle |-> <<"subtitle", i>>,
                 author |-> <<"author", i>> ] ]

\* a result without its data object
BrokenPost(i) ==
    [ id |-> <<"id", i>>, uid |-> i, type |-> "posts",
      first_publication_date |-> Some(DateOf(i)),
      last_publication_date |-> Some(DateOf(i) + 1) ]

PageSize == 1

\* the page of results that starts at document c, and the cursor that follows it
NextPage(c, n) == IF c + PageSize <= n THEN Some(c + PageSize) ELSE Null
PageOf(c, n) ==
    [ results |-> [ k \in 1..(IF c + PageSize - 1 <= n THEN PageSize
                              ELSE IF c <= n THEN n - c + 1 ELSE 0)
                    |-> RawPost(c + k - 1) ],
      next_page |-> NextPage(c, n) ]

(***************************************************************************)
(* Home page                                                               *)
(***************************************************************************)
\* the object literal built for each result
MapPost(post) ==
    [ uid |-> post.uid,
      first_publication_date |-> post.first_publication_date,
      data |-> [ title |-> post.data.title,
                 subtitle |-> post.data.subtitle,
                 author |-> post.data.author ] ]

\* post.data.title throws when post.data is undefined
Mappable(post) == "data" \in DOMAIN post

MapResults(results) == [ k \in 1..Len(results) |-> MapPost(results[k]) ]

\* variant: the new page put in front of the existing items
ConcatMutant(old, new) == new \o old

\* [...posts, ...newPosts]
Concat(old, new) == old \o new

\* getStaticProps of the home page
HomeGetStaticProps(n) ==
    LET postsResponse == PageOf(1, n)
    IN  [ results |-> MapResults(postsResponse.results),
          next_page |-> postsResponse.next_page ]

NoEvent == [ type |-> "init", kind |-> "none", id |-> 0 ]

InitList ==
    /\ total \in 0..NumPosts
    /\ posts = HomeGetStaticProps(total).results
    /\ loadMorePosts = HomeGetStaticProps(total).next_page
    /\ inflight = {}
    /\ calls = 0
    /\ netLog = <<>>
    /\ appended = <<>>
    /\ event = NoEvent
    \* the other pages are not open
    /\ slug = 0 /\ preview = FALSE /\ content = <<>> /\ prerendered = FALSE
    /\ gspPc = "idle" /\ response = Null /\ prevPost = Null /\ nextPost = Null
    /\ queries = 0 /\ gspResult = Null /\ view = Null
    /\ commentsBox = <<>> /\ mounts = 0

\* the body of handleLoadPosts up to the suspension on fetch: the promise keeps
\* the posts and loadMorePosts of the render the handler belongs to
HandleLoadPosts ==
    /\ calls < MaxCalls
    /\ Cardinality(inflight) < MaxInflight
    /\ calls' = calls + 1
    /\ inflight' = inflight \cup
            { [ id |-> calls + 1, posts |-> posts, url |-> loadMorePosts ] }
    /\ netLog' = Append(netLog, loadMorePosts)
    /\ event' = [ type |-> "call", kind |-> "fetch", id |-> calls + 1 ]
    /\ UNCHANGED <<total, posts, loadMorePosts, appended>>
    /\ UNCHANGED <<postVars, embedVars>>

\* the button exists only while loadMorePosts is truthy
ButtonRendered == loadMorePosts # Null

\* a click on "Carregar mais posts"
Click == ButtonRendered /\ HandleLoadPosts

\* a click that comes only after every earlier fetch has settled
ClickSeq == inflight = {} /\ Click

\* handleLoadPosts called while no button is rendered
Invoke == ~ButtonRendered /\ HandleLoadPosts

\* the bodies the server can answer a fetch of url with
ResponseKinds(url) ==
    IF url = Null THEN {"reject", "unparseable"}
    ELSE {"ok", "reject", "unparseable", "errorbody", "unmappable"}

\* the parsed body for the kinds that parse
BodyOf(kind, url, n) ==
    CASE kind = "ok" -> PageOf(url[1], n)
      [] kind = "unmappable" ->
            [ results |-> <<BrokenPost(url[1])>>, next_page |-> NextPage(url[1], n) ]

\* fetch(...).then(response => response.json()).then(data => {...}) for one promise
Settle(r, kind) ==
    /\ r \in inflight
    /\ kind \in ResponseKinds(r.url)
    /\ inflight' = inflight \ {r}
    /\ event' = [ type |-> "response", kind |-> kind, id |-> r.id ]
    /\ UNCHANGED <<total, calls, netLog>>
    /\ UNCHANGED <<postVars, embedVars>>
    /\ CASE kind \in {"reject", "unparseable"} ->
                \* the chain rejects before the last callback runs
                UNCHANGED <<posts, loadMorePosts, appended>>
         [] kind = "errorbody" ->
                \* data.next_page is undefined, data.results.map throws
                /\ loadMorePosts' = Null
                /\ UNCHANGED <<posts, appended>>
         [] kind \in {"ok", "unmappable"} ->
                LET data == BodyOf(kind, r.url, total)
                IN  /\ loadMorePosts' = data.next_page
                    /\ IF \A k \in 1..Len(data.results) : Mappable(data.results[k])
                       THEN /\ posts' = Concat(r.posts, MapResults(data.results))
                            /\ appended' = Append(appended, data.results)
                       ELSE UNCHANGED <<posts, appended>>

Respond == \E r \in inflight : \E kind \in ResponseKinds(r.url) : Settle(r, kind)

(***************************************************************************)
(* Post page: the content client as the page uses it                       *)
(***************************************************************************)
\* a stored document of type "posts" with its full data
PostDoc(i, c) ==
    [ id |-> <<"id", i>>, uid |-> i, type |-> "posts",
      first_publication_date |-> Some(DateOf(i)),
      last_publication_date |-> Some(DateOf(i) + 1),
      data |-> [ title |-> <<"title", i>>, subtitle |-> <<"subtitle", i>>,
                 author |-> <<"author", i>>,
                 banner |-> [ url |-> <<"banner", i>> ],
                 content |-> c ] ]

\* prismic.getByUID('posts', uid, ...) over the documents 1..n
GetByUID(uid, c, n) == IF uid \in 1..n THEN Some(PostDoc(uid, c)) ELSE Null

\* the documents 1..n ordered by first_publication_date, ascending or descending
Before(i, j, desc) == IF desc THEN DateOf(i) > DateOf(j) ELSE DateOf(i) < DateOf(j)
Ordered(n, desc) ==
    [ k \in 1..n |->
        CHOOSE i \in 1..n : Cardinality({ j \in 1..n : Before(j, i, desc) }) = k - 1 ]

\* prismic.query(type = posts, {fetch: ['post.title'], pageSize, after, orderings}):
\* the pageSize documents that follow the document `after` in the ordered list
Query(after, desc, pageSize, n) ==
    LET ord == Ordered(n, desc)
        pos == CHOOSE k \in 1..n : <<"id", ord[k]>> = after
        last == IF pos + pageSize <= n THEN pos + pageSize ELSE n
    IN  [ results |-> [ k \in 1..(last - pos) |->
                          [ id |-> <<"id", ord[pos + k]>>, uid |-> ord[pos + k],
                            data |-> [ title |-> <<"title", ord[pos + k]>> ] ] ] ]

\* getStaticPaths at build time, when the documents 1..b existed
GetStaticPaths(b) ==
    [ paths |-> { [ params |-> [ slug |-> RawPost(i).uid ] ] : i \in 1..b },
      fallback |-> TRUE ]

(***************************************************************************)
(* Post page: reading time                                                 *)
(***************************************************************************)
\* String.prototype.split(' ') on a sequence of characters: the pieces between
\* consecutive spaces, empty pieces included.  Computed by halving: the last
\* piece of the left half and the first piece of the right half are one piece.
RECURSIVE SplitSpaces(_)
SplitSpaces(s) ==
    IF Len(s) = 0 THEN << <<>> >>
    ELSE IF Len(s) = 1 THEN (IF s[1] = " " THEN << <<>>, <<>> >> ELSE << s >>)
    ELSE LET m == Len(s) \div 2
             l == SplitSpaces(SubSeq(s, 1, m))
             r == SplitSpaces(SubSeq(s, m + 1, Len(s)))
         IN  SubSeq(l, 1, Len(l) - 1) \o << l[Len(l)] \o r[1] >> \o Tail(r)

Split(s) == SplitSpaces(s)

\* RichText.asText(body): the blocks' text joined by a single space
RECURSIVE AsText(_)
AsText(body) ==
    IF body = <<>> THEN <<>>
    ELSE IF Len(body) = 1 THEN body[1].text
    ELSE body[1].text \o <<" ">> \o AsText(Tail(body))

WordsPerMinute == 200

\* variant: rounding down
CeilDivMutant(a, b) == a \div b

\* Math.ceil(a / b) for a >= 0, b > 0
CeilDiv(a, b) == IF a % b = 0 THEN a \div b ELSE (a \div b) + 1

SectionWords(section) ==
    LET headingWords == Len(Split(section.heading))
        bodyWords == Len(Split(AsText(section.body)))
    IN  headingWords + bodyWords

\* .reduce((acc, value) => acc + value) over a non-empty array
RECURSIVE Reduce(_)
Reduce(values) ==
    IF Len(values) = 1 THEN values[1]
    ELSE Reduce(SubSeq(values, 1, Len(values) - 1)) + values[Len(values)]

EstimatedReadTime(c) ==
    CeilDiv(Reduce([ k \in 1..Len(c) |-> SectionWords(c[k]) ]), WordsPerMinute)

\* the Post component: post is Null when the props carry no post
PostComponent(post, isFallback) ==
    IF post = Null
    THEN \* post.data: TypeError, reading a property of undefined
         [ kind |-> "error", isFallback |-> isFallback, estimatedReadTime |-> 0 ]
    ELSE IF post[1].data.content = <<>>
    THEN \* reduce of an empty array with no initial value: TypeError
         [ kind |-> "error", isFallback |-> isFallback, estimatedReadTime |-> 0 ]
    ELSE IF isFallback
    THEN [ kind |-> "placeholder", isFallback |-> isFallback,
           estimatedReadTime |-> EstimatedReadTime(post[1].data.content) ]
    ELSE [ kind |-> "content", isFallback |-> isFallback,
           estimatedReadTime |-> EstimatedReadTime(post[1].data.content) ]

\* ---- sample texts ----
Words(n) == [ k \in 1..(2 * n - 1) |-> IF k % 2 = 1 THEN "x" ELSE " " ]
Paragraph(t) == [ text |-> t, type |-> "paragraph", spans |-> <<>> ]
Headings == { <<"A", " ", "B", " ", "C">>, <<>>, Words(100) }
Bodies == { <<Paragraph(<<"D", " ", "E", " ", "F", " ", "G">>)>>,
            <<>>,
            <<Paragraph(Words(97)), Paragraph(<<"x", " ", " ", "x">>)>> }
Sections == { [ heading |-> h, body |-> b ] : h \in Headings, b \in Bodies }
Contents == UNION { [ 1..n -> Sections ] : n \in 0..MaxSections }

(***************************************************************************)
(* Post page: getStaticProps and rendering                                 *)
(***************************************************************************)
MissingSlug == NumDocs + 1

InitPost ==
    /\ slug \in 1..MissingSlug
    /\ preview \in BOOLEAN
    /\ content \in Contents
    /\ \E b \in 0..NumDocs :
          prerendered = ([ params |-> [ slug |-> slug ] ] \in GetStaticPaths(b).paths)
    /\ gspPc = "start"
    /\ response = Null /\ prevPost = Null /\ nextPost = Null
    /\ queries = 0
    /\ gspResult = Null
    /\ view = Null
    \* the other pages are not open
    /\ total = 0 /\ posts = <<>> /\ loadMorePosts = Null /\ inflight = {}
    /\ calls = 0 /\ netLog = <<>> /\ appended = <<>> /\ event = NoEvent
    /\ commentsBox = <<>> /\ mounts = 0

\* variant: a permanent redirect
RedirectHomeMutant == [ redirect |-> [ destination |-> "/", permanent |-> TRUE ] ]

RedirectHome == [ redirect |-> [ destination |-> "/", permanent |-> FALSE ] ]

\* const response = await prismic.getByUID(...); if (!response) return redirect
GspGetByUID ==
    /\ gspPc = "start"
    /\ response' = GetByUID(slug, content, NumDocs)
    /\ IF response' = Null
       THEN gspResult' = Some(RedirectHome) /\ gspPc' = "done"
       ELSE gspResult' = gspResult /\ gspPc' = "prevQuery"
    /\ UNCHANGED <<slug, preview, content, prerendered, prevPost, nextPost, queries, view>>
    /\ UNCHANGED <<listVars, embedVars>>

\* const prevPost = await prismic.query(..., orderings: first_publication_date)
GspPrevQuery ==
    /\ gspPc = "prevQuery"
    /\ prevPost' = Some(Query(response[1].id, FALSE, 1, NumDocs))
    /\ queries' = queries + 1
    /\ gspPc' = "nextQuery"
    /\ UNCHANGED <<slug, preview, content, prerendered, response, nextPost, gspResult, view>>
    /\ UNCHANGED <<listVars, embedVars>>

\* const nextPost = await prismic.query(..., orderings: first_publication_date desc)
GspNextQuery ==
    /\ gspPc = "nextQuery"
    /\ nextPost' = Some(Query(response[1].id, TRUE, 1, NumDocs))
    /\ queries' = queries + 1
    /\ gspPc' = "assemble"
    /\ UNCHANGED <<slug, preview, content, prerendered, response, prevPost, gspResult, view>>
    /\ UNCHANGED <<listVars, embedVars>>

\* { title, slug } of the first result, or nulls
Adjacent(q) ==
    [ title |-> IF Len(q.results) > 0 THEN Some(q.results[1].data.title) ELSE Null,
      slug |-> IF Len(q.results) > 0 THEN Some(q.results[1].uid) ELSE Null ]

\* const post = {...}; return { props: { post, preview } }
GspReturn ==
    /\ gspPc = "assemble"
    /\ LET r == response[1]
           post == [ uid |-> r.uid,
                     first_publication_date |-> r.first_publication_date,
                     last_publication_date |-> r.last_publication_date,
                     prevPost |-> Adjacent(prevPost[1]),
                     nextPost |-> Adjacent(nextPost[1]),
                     data |-> [ title |-> r.data.title,
                                subtitle |-> r.data.subtitle,
                                banner |-> [ url |-> r.data.banner.url ],
                                author |-> r.data.author,
                                content |-> r.data.content ] ]
       IN  gspResult' = Some([ props |-> [ post |-> post, preview |-> preview ] ])
    /\ gspPc' = "done"
    /\ UNCHANGED <<slug, preview, content, prerendered, response, prevPost, nextPost,
                   queries, view>>
    /\ UNCHANGED <<listVars, embedVars>>

\* the path was not returned by getStaticPaths: the page is rendered with
\* router.isFallback = true and empty props while getStaticProps runs
FallbackRender ==
    /\ ~prerendered
    /\ gspPc # "done"
    /\ view = Null
    /\ view' = Some(PostComponent(Null, TRUE))
    /\ UNCHANGED <<slug, preview, content, prerendered, gspPc, response, prevPost,
                   nextPost, queries, gspResult>>
    /\ UNCHANGED <<listVars, embedVars>>

\* getStaticProps returned props: the page is rendered with them
PropsRender ==
    /\ gspPc = "done"
    /\ "props" \in DOMAIN gspResult[1]
    /\ view' = Some(PostComponent(Some(gspResult[1].props.post), FALSE))
    /\ view' # view
    /\ UNCHANGED <<slug, preview, content, prerendered, gspPc, response, prevPost,
                   nextPost, queries, gspResult>>
    /\ UNCHANGED <<listVars, embedVars>>

\* getStaticProps returned a redirect: the framework navigates, Post is not rendered
FollowRedirect ==
    /\ gspPc = "done"
    /\ "redirect" \in DOMAIN gspResult[1]
    /\ view' = Some([ kind |-> "redirect", isFallback |-> FALSE, estimatedReadTime |-> 0 ])
    /\ view' # view
    /\ UNCHANGED <<slug, preview, content, prerendered, gspPc, response, prevPost,
                   nextPost, queries, gspResult>>
    /\ UNCHANGED <<listVars, embedVars>>

NextPost ==
    \/ GspGetByUID \/ GspPrevQuery \/ GspNextQuery \/ GspReturn
    \/ FallbackRender \/ PropsRender \/ FollowRedirect

(***************************************************************************)
(* Comments embed                                                          *)
(***************************************************************************)
\* the <script> element addUtterancesScript builds and appends to parentElement
AddUtterancesScript(parentElement, repo, label, issueTerm, theme, isIssueNumber) ==
    LET base == { <<"src", "https://utteranc.es/client.js">>,
                  <<"crossorigin", "anonymous">>, <<"async", "true">>,
                  <<"repo", repo>>, <<"theme", theme>> }
        withLabel == IF label # "" THEN base \cup { <<"label", label>> } ELSE base
        attrs == IF isIssueNumber THEN withLabel \cup { <<"issue-number", issueTerm>> }
                 ELSE withLabel \cup { <<"issue-term", issueTerm>> }
    IN  Append(parentElement, [ tag |-> "script", class |-> "", attrs |-> attrs ])

\* the element client.js puts in place of its own <script> once it has loaded
Widget == [ tag |-> "div", class |-> "utterances", attrs |-> {} ]

\* document.getElementsByClassName('utterances')[0], then .remove()
RemoveFirstUtterances(box) ==
    IF \E k \in 1..Len(box) : box[k].class = "utterances"
    THEN LET k == CHOOSE i \in 1..Len(box) :
                    /\ box[i].class = "utterances"
                    /\ \A j \in 1..(i - 1) : box[j].class # "utterances"
         IN  SubSeq(box, 1, k - 1) \o SubSeq(box, k + 1, Len(box))
    ELSE box

\* one run of the effect of UtterancesComments (it has no dependency list, so
\* it runs after every render of the component)
EffectRun ==
    /\ mounts < MaxMounts
    /\ commentsBox' = AddUtterancesScript(RemoveFirstUtterances(commentsBox),
                          "GH-Marc/ignite-utterances", "blog-comment", "pathname",
                          "github-dark", FALSE)
    /\ mounts' = mounts + 1
    /\ UNCHANGED <<listVars, postVars>>

\* the asynchronous client.js of one appended <script> finishes loading
ScriptLoaded ==
    /\ \E k \in 1..Len(commentsBox) :
          /\ commentsBox[k].tag = "script"
          /\ commentsBox' = [ commentsBox EXCEPT ![k] = Widget ]
    /\ UNCHANGED mounts
    /\ UNCHANGED <<listVars, postVars>>

\* a post page has been rendered: the comments box exists and is empty
InitEmbed ==
    /\ commentsBox = <<>> /\ mounts = 0
    /\ total = 0 /\ posts = <<>> /\ loadMorePosts = Null /\ inflight = {}
    /\ calls = 0 /\ netLog = <<>> /\ appended = <<>> /\ event = NoEvent
    /\ slug = 0 /\ preview = FALSE /\ content = <<>> /\ prerendered = FALSE
    /\ gspPc = "idle" /\ response = Null /\ prevPost = Null /\ nextPost = Null
    /\ queries = 0 /\ gspResult = Null /\ view = Null

NextEmbed == EffectRun \/ ScriptLoaded

\* clicks and responses in any interleaving
NextList == Click \/ Respond
SpecList == InitList /\ [][NextList]_vars

\* each click after the previous call has settled
NextSeq == ClickSeq \/ Respond
SpecSeq == InitList /\ [][NextSeq]_vars

\* handleLoadPosts callable at any time
NextDirect == Click \/ Invoke \/ Respond
SpecDirect == InitList /\ [][NextDirect]_vars

\* one request for a post page
SpecPost == InitPost /\ [][NextPost]_vars

\* the comments box of one mounted post page
SpecEmbed == InitEmbed /\ [][NextEmbed]_vars

(***************************************************************************)
(* Properties of the home page                                             *)
(***************************************************************************)
RECURSIVE Flatten(_)
Flatten(pages) == IF pages = <<>> THEN <<>> ELSE Head(pages) \o Flatten(Tail(pages))

IsPrefix(s, t) == Len(s) <= Len(t) /\ \A k \in 1..Len(s) : s[k] = t[k]

\* C1: when every click comes after the previous call has settled, the list is
\* the first page followed by the appended pages P1, P2, ... in the order they
\* were appended, each result reduced to uid, first_publication_date, title,
\* subtitle and author.
C1_AppendInOrder ==
    LET expected == PageOf(1, total).results \o Flatten(appended)
    IN  /\ Len(posts) = Len(expected)
        /\ \A k \in 1..Len(posts) :
              /\ DOMAIN posts[k] = {"uid", "first_publication_date", "data"}
              /\ DOMAIN posts[k].data = {"title", "subtitle", "author"}
              /\ posts[k].uid = expected[k].uid
              /\ posts[k].first_publication_date = expected[k].first_publication_date
              /\ posts[k].data.title = expected[k].data.title
              /\ posts[k].data.subtitle = expected[k].data.subtitle
              /\ posts[k].data.author = expected[k].data.author

\* a state where two pages have been appended one after the other
C1_TwoPagesAppended ==
    /\ Len(appended) = 2 /\ inflight = {}
    /\ Len(posts) = 3 /\ posts[2].uid = 2 /\ posts[3].uid = 3

\* C2: a call of loadMore made while the cursor is null issues no network call.
C2_NoFetchWhenExhausted ==
    [][(loadMorePosts = Null /\ calls' = calls + 1)
          => (netLog' = netLog /\ posts' = posts /\ loadMorePosts' = loadMorePosts)]_vars

\* C3: a loadMore call that fails (rejected fetch, unparseable body, a result
\* that cannot be mapped) leaves the items and the cursor as they were.
C3_FailureKeepsState ==
    [][(event'.type = "response" /\ event'.kind # "ok" /\ event' # event)
          => (posts' = posts /\ loadMorePosts' = loadMorePosts)]_vars

\* C9: under any interleaving of calls and responses the list only grows by
\* appending: the items before a step are a prefix of the items after it.
C9_OnlyAppends == [][IsPrefix(posts, posts')]_vars

\* C10: with pages that do not overlap, no two items of the list share an id.
C10_NoDuplicateIds ==
    \A i, j \in 1..Len(posts) : i # j => posts[i].uid # posts[j].uid

(***************************************************************************)
(* Properties of the post page                                             *)
(***************************************************************************)
\* the document published immediately before / after document u, if any
EarlierThan(u) == { i \in 1..NumDocs : DateOf(i) < DateOf(u) }
LaterThan(u) == { i \in 1..NumDocs : DateOf(i) > DateOf(u) }
ChronoPrev(u) ==
    IF EarlierThan(u) = {} THEN Null
    ELSE Some(CHOOSE i \in EarlierThan(u) : \A j \in EarlierThan(u) : DateOf(j) <= DateOf(i))
ChronoNext(u) ==
    IF LaterThan(u) = {} THEN Null
    ELSE Some(CHOOSE i \in LaterThan(u) : \A j \in LaterThan(u) : DateOf(i) <= DateOf(j))

\* C4: the props assembled for a post name the post published just before it
\* as previous and the one published just after it as next, and null where
\* there is none (first post: no previous, last post: no next).
C4_AdjacentPosts ==
    (gspPc = "done" /\ "props" \in DOMAIN gspResult[1]) =>
        LET post == gspResult[1].props.post
        IN  /\ post.prevPost.slug = ChronoPrev(post.uid)
            /\ post.nextPost.slug = ChronoNext(post.uid)

\* C5: for a slug with no document, getStaticProps returns a non-permanent
\* redirect to '/', issues no adjacent-post query and no post body is rendered.
C5_MissingSlugRedirects ==
    slug = MissingSlug =>
        /\ queries = 0 /\ prevPost = Null /\ nextPost = Null
        /\ gspPc \in {"start", "done"}
        /\ gspPc = "done" =>
              /\ DOMAIN gspResult[1] = {"redirect"}
              /\ gspResult[1].redirect.destination = "/"
              /\ gspResult[1].redirect.permanent = FALSE
        /\ view # Null => view[1].kind \in {"redirect", "placeholder", "error"}

\* a request for a missing slug that ended in the redirect
C5_Redirected ==
    /\ slug = MissingSlug /\ gspPc = "done" /\ response = Null
    /\ view # Null /\ view[1].kind = "redirect"

CountSpaces(t) == Cardinality({ k \in 1..Len(t) : t[k] = " " })
RECURSIVE SumWords(_)
SumWords(texts) ==
    IF texts = <<>> THEN 0 ELSE 1 + CountSpaces(Head(texts)) + SumWords(Tail(texts))
\* words of a section: the pieces of the heading, plus the pieces of the body's
\* plain text (the paragraphs joined by one space; the empty text is one piece)
WordsOf(section) ==
    (1 + CountSpaces(section.heading))
    + (IF section.body = <<>> THEN 1
       ELSE SumWords([ k \in 1..Len(section.body) |-> section.body[k].text ]))
RECURSIVE TotalWords(_)
TotalWords(c) == IF c = <<>> THEN 0 ELSE WordsOf(Head(c)) + TotalWords(Tail(c))

ExampleContent ==
    << [ heading |-> <<"A", " ", "B", " ", "C">>,
         body |-> <<Paragraph(<<"D", " ", "E", " ", "F", " ", "G">>)>> ] >>

\* C7: for a post with at least one section the displayed reading time t is
\* the least whole number with 200 * t >= W, W being the number of
\* space-separated pieces of all headings and all bodies' plain text; the post
\* with heading "A B C" and body "D E F G" reads in 1 minute.
C7_ReadingTime ==
    (view # Null /\ view[1].kind = "content") =>
        LET t == view[1].estimatedReadTime
            w == TotalWords(content)
        IN  /\ content # <<>>
            /\ 200 * t >= w
            /\ 200 * (t - 1) < w
            /\ content = ExampleContent => t = 1

\* a rendered post of 202 words, read in 2 minutes
C7_TwoMinutes ==
    /\ view # Null /\ view[1].kind = "content"
    /\ TotalWords(content) = 202 /\ view[1].estimatedReadTime = 2

\* C8: a render made while router.isFallback is true produces the loading
\* placeholder.
C8_FallbackShowsPlaceholder ==
    (view # Null /\ view[1].isFallback) => view[1].kind = "placeholder"

(***************************************************************************)
(* Properties of the comments embed                                        *)
(***************************************************************************)
\* C6: once the effect has run twice, the comments box holds exactly one
\* element, whatever the timing of the script loads.
C6_ExactlyOneEmbed == mounts >= 2 => Len(commentsBox) = 1

====
